---- MODULE Spec2Model ----
(***************************************************************************)
(* Model of the Golos websocket API client (src/src/api/index.js): the     *)
(* connection manager (start/stop and the open/close/message listeners),   *)
(* the request multiplexer (send), the message dispatcher (onMessage),     *)
(* the streaming pipeline (streamBlockNumber .. streamOperations) and the  *)
(* positional methods generated from the registry (lines 321-358).         *)
(*                                                                         *)
(* The file is an ES module compiled by Babel (const becomes var), so the  *)
(* guard of line 64, `startP !== this.startP`, compares undefined with     *)
(* undefined when the executor runs and never returns early.               *)
(*                                                                         *)
(* The transport follows the WebSocket API: its events are dispatched      *)
(* from the event loop, never from inside close() or send(), and send()    *)
(* on a socket that is still connecting throws.                            *)
(***************************************************************************)
EXTENDS Integers, Sequences, FiniteSets, TLC

\* ------------------------------------------------------------------ bounds
MaxCalls == 2

MaxConn == 2

MaxPush == 1

\* The head block number of the node when the stream starts, and the
\* largest one it reaches.
FirstBlock == 5

MaxBlock == 8

MaxPolls == 3

\* The explicit id (data.id) that callers of send() may pass.
ExplicitId == 1

\* The arguments a generated method is called with are 0..MaxArg, 0 being
\* a falsy one; DefaultValue is the default the registry declares.
MaxArg == 2

DefaultValue == 3

MaxInvocations == 3

\* ------------------------------------------------------------- the client
VARIABLES id, startP, ws, releases, requests, callbacks,
          promise, tstate, listeners, nconn, calls, writes

coreVars == <<id, startP, ws, releases, requests, callbacks,
              promise, tstate, listeners, nconn, calls, writes>>

\* ----------------------------------------------------------- the streams
\* One streamOperations instance and the three streams it is built on:
\*   running, current   streamBlockNumber's closure variables (0 for '')
\*   polls, delays      the polls (getDynamicGlobalProperties calls) that
\*                      are outstanding and the Promise.delay timers pending
\*   last               streamBlock's closure variable (0 for '')
\*   fetchOut           the numbers whose getBlock call is outstanding
\*   polled, emitted, fetched, txs, ops
\*                      what the polls returned, and what streamBlockNumber,
\*                      getBlock, streamTransactions and streamOperations'
\*                      callback were given, in order
\*   errs               how often each layer's callback was given an error
\*   cancelled          whether the cancel function has been called
VARIABLE stream

streamVars == <<stream>>

\* ------------------------------------------------- the generated methods
\* One generated positional method: the defaultParms object of its closure,
\* and the last call of it (its arguments without the callback, the params
\* it forwarded to send(), and how many calls there were).
VARIABLES defaultParms, lastCall

bindVars == <<defaultParms, lastCall>>

vars == <<coreVars, streamVars, bindVars>>

\* Ids a table can be keyed by: the auto-assigned ones and the explicit ones.
Ids == 0..MaxCalls

ExplicitIds == {ExplicitId}

Conns == 1..MaxConn

Events == {"open", "close", "message"}

NoCall == 0

\* cbMethods.includes(data.method): a call is subscription-style when its
\* method is one of the three callback methods.
IsCbMethod(sub) == sub

\* An inbound frame: {"id": i, "result": ...} or {"id": i, "error": {...}}.
\* The node answers the request with id i by a result made for that request.
ResultOf(i) == [for |-> i]

Frame(i, err) ==
  IF err THEN [id |-> i, error |-> [message |-> "x"]]
         ELSE [id |-> i, result |-> ResultOf(i)]

HasError(f) == "error" \in DOMAIN f

\* An Error made by the client itself (lines 82 and 164), or by the transport
\* when send() throws; "none" stands for no value yet.
Failure(why) == [reason |-> why]

Settled(c) == calls[c].st \in {"resolved", "rejected"}

\* Nodeify with the callback forgotten.
NodeifyDropped(rec) == rec

\* promise.nodeify(callback): the callback runs once when the promise settles.
Nodeify(rec) == IF rec.cb THEN [rec EXCEPT !.ncb = @ + 1] ELSE rec

\* resolve(value) / reject(err) of the promise made by send(): a promise
\* that has settled ignores both.
ResolveCall(rec, v) ==
  IF rec.st \in {"resolved", "rejected"} THEN rec
  ELSE Nodeify([rec EXCEPT !.st = "resolved", !.val = v, !.awaits = 0])

RejectCall(rec, e) ==
  IF rec.st \in {"resolved", "rejected"} THEN rec
  ELSE Nodeify([rec EXCEPT !.st = "rejected", !.val = e, !.awaits = 0])

CoreInit ==
  /\ id = 0
  /\ startP = 0
  /\ ws = 0
  /\ releases = {}
  /\ requests = [i \in Ids |-> NoCall]
  /\ callbacks = [i \in Ids |-> NoCall]
  /\ promise = [t \in Conns |-> "none"]
  /\ tstate = [t \in Conns |-> "none"]
  /\ listeners = [t \in Conns |-> {}]
  /\ nconn = 0
  /\ calls = <<>>
  /\ writes = {}

\* start() without the early return of lines 59-61.
StartBodyAlwaysConnects ==
  LET t == nconn + 1 IN
  /\ t \in Conns
  /\ nconn' = t
  /\ ws' = t
  /\ tstate' = [tstate EXCEPT ![t] = "connecting"]
  /\ listeners' = [listeners EXCEPT ![t] = Events]
  /\ releases' = releases \cup {<<t, e>> : e \in Events}
  /\ promise' = [promise EXCEPT ![t] = "pending"]
  /\ startP' = t

\* start(): returns this.startP when there is one; otherwise makes the
\* transport, registers the three listeners and stores the new promise.
StartBody ==
  IF startP # 0
  THEN UNCHANGED <<startP, ws, releases, promise, tstate, listeners, nconn>>
  ELSE LET t == nconn + 1 IN
       /\ nconn' = t
       /\ ws' = t
       /\ tstate' = [tstate EXCEPT ![t] = "connecting"]
       /\ listeners' = [listeners EXCEPT ![t] = Events]
       /\ releases' = releases \cup {<<t, e>> : e \in Events}
       /\ promise' = [promise EXCEPT ![t] = "pending"]
       /\ startP' = t

Start ==
  /\ UNCHANGED <<streamVars, bindVars>>
  /\ startP = 0 => nconn < MaxConn
  /\ StartBody
  /\ UNCHANGED <<id, requests, callbacks, calls, writes>>

\* What the release functions of this.releases leave registered on t.
Released(t) == listeners[t] \ {e \in Events : <<t, e>> \in releases}

\* stop() without `delete this.startP`.
StopKeepsPromise ==
  /\ UNCHANGED <<streamVars, bindVars>>
  /\ tstate' = IF ws # 0 THEN [tstate EXCEPT ![ws] = "closed"] ELSE tstate
  /\ ws' = 0
  /\ listeners' = [t \in Conns |-> Released(t)]
  /\ releases' = {}
  /\ UNCHANGED <<id, startP, requests, callbacks, promise, nconn, calls, writes>>

\* stop(): close the transport, forget the promise and the transport,
\* run every release function.
Stop ==
  /\ UNCHANGED <<streamVars, bindVars>>
  /\ tstate' = IF ws # 0 THEN [tstate EXCEPT ![ws] = "closed"] ELSE tstate
  /\ startP' = 0
  /\ ws' = 0
  /\ listeners' = [t \in Conns |-> Released(t)]
  /\ releases' = {}
  /\ UNCHANGED <<id, requests, callbacks, promise, nconn, calls, writes>>

\* The 'open' listener.
OnOpen(t) ==
  /\ UNCHANGED <<streamVars, bindVars>>
  /\ tstate[t] = "connecting"
  /\ "open" \in listeners[t]
  /\ tstate' = [tstate EXCEPT ![t] = "open"]
  /\ listeners' = [listeners EXCEPT ![t] = @ \ {"open"}]
  /\ promise' = [promise EXCEPT ![t] = IF @ = "pending" THEN "resolved" ELSE @]
  /\ UNCHANGED <<id, startP, ws, releases, requests, callbacks, nconn, calls, writes>>

\* The 'close' listener: the transport closed under the client.
OnClose(t) ==
  /\ UNCHANGED <<streamVars, bindVars>>
  /\ tstate[t] \in {"connecting", "open"}
  /\ "close" \in listeners[t]
  /\ tstate' = [tstate EXCEPT ![t] = "closed"]
  /\ ws' = 0
  /\ startP' = 0
  /\ listeners' = [u \in Conns |-> Released(u)]
  /\ releases' = {}
  /\ promise' = [promise EXCEPT ![t] = IF @ = "pending" THEN "rejected" ELSE @]
  /\ UNCHANGED <<id, requests, callbacks, nconn, calls, writes>>

\* send() with `++this.id` for `this.id++`.
SendPreIncrement(sub, eid) ==
  /\ UNCHANGED <<streamVars, bindVars>>
  /\ Len(calls) < MaxCalls
  /\ startP = 0 => nconn < MaxConn
  /\ StartBody
  /\ id' = IF eid # 0 THEN id ELSE id + 1
  /\ calls' = Append(calls, [id |-> IF eid # 0 THEN eid ELSE id + 1, sub |-> sub,
                             cb |-> TRUE, awaits |-> startP', st |-> "awaiting",
                             val |-> Failure("none"), ncb |-> 0])
  /\ UNCHANGED <<requests, callbacks, writes>>

\* send(), the synchronous part: the id, start(), and the chained promise.
Send(sub, eid) ==
  /\ UNCHANGED <<streamVars, bindVars>>
  /\ Len(calls) < MaxCalls
  /\ startP = 0 => nconn < MaxConn
  /\ StartBody
  /\ id' = IF eid # 0 THEN id ELSE id + 1
  /\ calls' = Append(calls, [id |-> IF eid # 0 THEN eid ELSE id, sub |-> sub,
                             cb |-> TRUE, awaits |-> startP', st |-> "awaiting",
                             val |-> Failure("none"), ncb |-> 0])
  /\ UNCHANGED <<requests, callbacks, writes>>

\* The call after its envelope went out: it awaits its reply (a
\* subscription-style call awaits for ever), no longer the connect promise.
Written(rec) ==
  [rec EXCEPT !.st = IF IsCbMethod(rec.sub) THEN "subscribed" ELSE "pending",
              !.awaits = 0]

\* The callbacks chained on one promise by then() run in the order of the
\* calls to then(): call c is the next one of its connect promise.
NextInLine(c) ==
  /\ calls[c].st = "awaiting"
  /\ \A d \in 1..(c - 1) :
        calls[d].awaits = calls[c].awaits => calls[d].st # "awaiting"

\* The dispatch step with the entry registered before the transport is checked.
DispatchRegistersFirst(c) ==
  /\ UNCHANGED <<streamVars, bindVars>>
  /\ NextInLine(c)
  /\ promise[calls[c].awaits] = "resolved"
  /\ IF IsCbMethod(calls[c].sub)
     THEN /\ callbacks' = [callbacks EXCEPT ![calls[c].id] = c]
          /\ UNCHANGED requests
     ELSE /\ requests' = [requests EXCEPT ![calls[c].id] = c]
          /\ UNCHANGED callbacks
  /\ IF ws = 0
     THEN /\ calls' = [calls EXCEPT ![c] = RejectCall(@, Failure("unavailable"))]
          /\ UNCHANGED writes
     ELSE IF tstate[ws] = "open"
          THEN /\ writes' = writes \cup {<<ws, c>>}
               /\ calls' = [calls EXCEPT ![c] = Written(@)]
          ELSE /\ calls' = [calls EXCEPT ![c] = RejectCall(@, Failure("writefailed"))]
               /\ UNCHANGED writes
  /\ UNCHANGED <<id, startP, ws, releases, promise, tstate, listeners, nconn>>

\* send(), the step chained on the connect promise once it has resolved.
Dispatch(c) ==
  /\ UNCHANGED <<streamVars, bindVars>>
  /\ NextInLine(c)
  /\ promise[calls[c].awaits] = "resolved"
  /\ IF ws = 0
     THEN /\ calls' = [calls EXCEPT ![c] = RejectCall(@, Failure("unavailable"))]
          /\ UNCHANGED <<requests, callbacks, writes>>
     ELSE /\ IF IsCbMethod(calls[c].sub)
             THEN /\ callbacks' = [callbacks EXCEPT ![calls[c].id] = c]
                  /\ UNCHANGED requests
             ELSE /\ requests' = [requests EXCEPT ![calls[c].id] = c]
                  /\ UNCHANGED callbacks
          /\ IF tstate[ws] = "open"
             THEN /\ writes' = writes \cup {<<ws, c>>}
                  /\ calls' = [calls EXCEPT ![c] = Written(@)]
             ELSE /\ calls' = [calls EXCEPT ![c] = RejectCall(@, Failure("writefailed"))]
                  /\ UNCHANGED writes
  /\ UNCHANGED <<id, startP, ws, releases, promise, tstate, listeners, nconn>>

\* The rejection of the connect promise reaches the chained promise.
ConnectFailed(c) ==
  /\ UNCHANGED <<streamVars, bindVars>>
  /\ NextInLine(c)
  /\ promise[calls[c].awaits] = "rejected"
  /\ calls' = [calls EXCEPT ![c] = RejectCall(@, Failure("closed"))]
  /\ UNCHANGED <<id, startP, ws, releases, requests, callbacks,
                 promise, tstate, listeners, nconn, writes>>

\* A lookup that answers the oldest pending request, whatever the frame's id.
LookupOldest(i) ==
  IF \E j \in Ids : requests[j] # NoCall
  THEN requests[CHOOSE j \in Ids : requests[j] # NoCall /\
                  \A k \in Ids : requests[k] # NoCall => requests[j] <= requests[k]]
  ELSE callbacks[i]

\* The 'message' listener: requests[id] || callbacks[id].
Lookup(i) == IF requests[i] # NoCall THEN requests[i] ELSE callbacks[i]

\* onMessage with err.payload = message.error instead of the message.
OnMessageBodyCausePayload(f, c) ==
  IF HasError(f)
  THEN calls' = IF IsCbMethod(calls[c].sub) THEN calls
                ELSE [calls EXCEPT ![c] = RejectCall(@, [payload |-> f.error])]
  ELSE IF IsCbMethod(calls[c].sub)
       THEN calls' = [calls EXCEPT ![callbacks[f.id]].ncb = @ + 1]
       ELSE calls' = [calls EXCEPT ![c] = ResolveCall(@, f.result)]

\* onMessage(message, request), request being the entry of call c. An entry
\* of this.callbacks has no reject: on an error frame the call of the
\* undefined reject throws and nothing else happens.
OnMessageBody(f, c) ==
  IF HasError(f)
  THEN calls' = IF IsCbMethod(calls[c].sub) THEN calls
                ELSE [calls EXCEPT ![c] = RejectCall(@, [payload |-> f])]
  ELSE IF IsCbMethod(calls[c].sub)
       THEN calls' = [calls EXCEPT ![callbacks[f.id]].ncb = @ + 1]
       ELSE calls' = [calls EXCEPT ![c] = ResolveCall(@, f.result)]

\* The 'message' listener: an unknown id is dropped; otherwise the entry of
\* this.requests is deleted and onMessage runs.
OnMessage(t, i, err) ==
  /\ UNCHANGED <<streamVars, bindVars>>
  /\ tstate[t] = "open"
  /\ "message" \in listeners[t]
  /\ LET f == Frame(i, err)
         c == Lookup(i)
     IN IF c = NoCall
        THEN UNCHANGED <<requests, calls>>
        ELSE /\ ~HasError(f) /\ IsCbMethod(calls[c].sub) => calls[c].ncb < MaxPush
             /\ requests' = [requests EXCEPT ![i] = NoCall]
             /\ OnMessageBody(f, c)
  /\ UNCHANGED <<id, startP, ws, releases, callbacks, promise, tstate,
                 listeners, nconn, writes>>

Next ==
  \/ Start
  \/ Stop
  \/ \E t \in Conns : OnOpen(t)
  \/ \E t \in Conns : OnClose(t)
  \/ \E sub \in BOOLEAN, eid \in {0} \cup ExplicitIds : (sub => eid = 0) /\ Send(sub, eid)
  \/ \E c \in 1..Len(calls) : Dispatch(c)
  \/ \E c \in 1..Len(calls) : ConnectFailed(c)
  \/ \E t \in Conns, i \in Ids, err \in BOOLEAN : OnMessage(t, i, err)


\* ------------------------------------------------- the streaming pipeline
Blocks == FirstBlock..MaxBlock

Layers == 1..4

\* The block the node returns for number n: its transactions, each with its
\* operations. Some blocks are empty.
OperationsOf(n, j) == [k \in 1..(1 + (j % 2)) |-> <<n, j, k>>]

TransactionsOf(n) == [j \in 1..(n % 3) |-> <<n, j>>]

RECURSIVE Flatten(_, _)
Flatten(n, j) ==
  IF j = 0 THEN <<>> ELSE Flatten(n, j - 1) \o OperationsOf(n, j)

\* The numbers the loop of lines 220-232 passes to callback when the poll
\* returns blockId and the cursor is cur (0 stands for the initial '').
Emits(cur, blockId) ==
  IF blockId = cur THEN <<>>
  ELSE IF cur # 0
       THEN [k \in 1..(IF blockId - 1 > cur THEN blockId - 1 - cur ELSE 0) |-> cur + k]
       ELSE <<blockId>>

\* The cursor the loop leaves.
CursorAfter(cur, blockId) ==
  IF blockId = cur THEN cur
  ELSE IF cur # 0
       THEN IF blockId > cur THEN blockId - 1 ELSE cur
       ELSE blockId

\* streamBlock's callback with `last = current` moved before the comparison.
FetchesForLastFirst(lst, ids) == <<>>

\* streamBlock's callback (lines 265-269) over the numbers of one poll: the
\* numbers it calls getBlock for, `last` being lst before the first.
RECURSIVE FetchesFor(_, _)
FetchesFor(lst, ids) ==
  IF ids = <<>> THEN <<>>
  ELSE IF Head(ids) # lst
       THEN <<Head(ids)>> \o FetchesFor(Head(ids), Tail(ids))
       ELSE FetchesFor(lst, Tail(ids))

LastAfter(lst, ids) ==
  IF FetchesFor(lst, ids) = <<>> THEN lst
  ELSE FetchesFor(lst, ids)[Len(FetchesFor(lst, ids))]

SeqRange(q) == {q[i] : i \in 1..Len(q)}

StreamInit ==
  stream = [running |-> TRUE, current |-> 0, polls |-> 1, delays |-> 0,
            polled |-> <<>>, emitted |-> <<>>, last |-> 0, fetched |-> <<>>,
            fetchOut |-> {}, txs |-> <<>>, ops |-> <<>>,
            errs |-> [l \in Layers |-> 0], cancelled |-> FALSE]

\* The reply handler calling update() at once as well as after the delay.
PollReplyPollsAgain(blockId) ==
  /\ UNCHANGED <<coreVars, bindVars>>
  /\ stream.polls > 0
  /\ Len(stream.polled) < MaxPolls
  /\ IF stream.polled = <<>> THEN TRUE
     ELSE blockId >= stream.polled[Len(stream.polled)]
  /\ LET numbers == Emits(stream.current, blockId)
         fetches == FetchesFor(stream.last, numbers)
     IN stream' = [stream EXCEPT
                     !.polled = Append(@, blockId),
                     !.emitted = @ \o numbers,
                     !.current = CursorAfter(@, blockId),
                     !.fetched = @ \o fetches,
                     !.fetchOut = @ \cup SeqRange(fetches),
                     !.last = LastAfter(@, numbers),
                     !.polls = IF stream.running THEN @ ELSE @ - 1,
                     !.delays = @ + 1]

\* The poll resolves with blockId: the emit loop, streamBlock's callback for
\* every emitted number, then Promise.delay(ts).
PollReply(blockId) ==
  /\ UNCHANGED <<coreVars, bindVars>>
  /\ stream.polls > 0
  /\ IF stream.polled = <<>> THEN TRUE
     ELSE blockId >= stream.polled[Len(stream.polled)]
  /\ LET numbers == Emits(stream.current, blockId)
         fetches == FetchesFor(stream.last, numbers)
     IN stream' = [stream EXCEPT
                     !.polled = Append(@, blockId),
                     !.emitted = @ \o numbers,
                     !.current = CursorAfter(@, blockId),
                     !.fetched = @ \o fetches,
                     !.fetchOut = @ \cup SeqRange(fetches),
                     !.last = LastAfter(@, numbers),
                     !.polls = @ - 1,
                     !.delays = @ + 1]

\* The rejection handler polling again after it passed the error on.
PollErrorRetries ==
  /\ UNCHANGED <<coreVars, bindVars>>
  /\ stream.polls > 0
  /\ stream' = [stream EXCEPT
                  !.errs = [l \in Layers |-> @[l] + 1]]

\* The poll fails: callback(err) runs up the chain, each layer calling
\* release() and its own callback; no delay is started.
PollError ==
  /\ UNCHANGED <<coreVars, bindVars>>
  /\ stream.polls > 0
  /\ stream' = [stream EXCEPT
                  !.polls = @ - 1,
                  !.running = FALSE,
                  !.errs = [l \in Layers |-> @[l] + 1]]

\* update() without the test of running (line 212).
TickIgnoresRunning ==
  /\ UNCHANGED <<coreVars, bindVars>>
  /\ stream.delays > 0
  /\ Len(stream.polled) < MaxPolls
  /\ stream' = [stream EXCEPT !.delays = @ - 1, !.polls = @ + 1]

\* The delay elapses: update() returns when running is false and polls
\* otherwise.
Tick ==
  /\ UNCHANGED <<coreVars, bindVars>>
  /\ stream.delays > 0
  /\ stream.running => Len(stream.polled) < MaxPolls
  /\ stream' = [stream EXCEPT
                  !.delays = @ - 1,
                  !.polls = IF stream.running THEN @ + 1 ELSE @]

\* getBlock(n) resolves: streamTransactions passes on each transaction and
\* streamOperations each operation of each.
FetchReply(n) ==
  /\ UNCHANGED <<coreVars, bindVars>>
  /\ n \in stream.fetchOut
  /\ stream' = [stream EXCEPT
                  !.fetchOut = @ \ {n},
                  !.txs = @ \o TransactionsOf(n),
                  !.ops = @ \o Flatten(n, Len(TransactionsOf(n)))]

\* getBlock(n) fails: its callback is streamTransactions' handler, which
\* calls release() and passes the error on.
FetchError(n) ==
  /\ UNCHANGED <<coreVars, bindVars>>
  /\ n \in stream.fetchOut
  /\ stream' = [stream EXCEPT
                  !.fetchOut = @ \ {n},
                  !.running = FALSE,
                  !.errs = [l \in Layers |-> IF l >= 2 THEN @[l] + 1 ELSE @[l]]]

\* The function streamOperations returned, which is streamBlockNumber's.
Cancel ==
  /\ UNCHANGED <<coreVars, bindVars>>
  /\ ~stream.cancelled
  /\ stream' = [stream EXCEPT !.running = FALSE, !.cancelled = TRUE]

StreamNext ==
  \/ \E b \in Blocks : PollReply(b)
  \/ PollError
  \/ Tick
  \/ \E n \in Blocks : FetchReply(n)
  \/ \E n \in Blocks : FetchError(n)
  \/ Cancel

\* ------------------------------------------------- the generated methods
\* The registry entry of the method: params ['a', 'b=<DefaultValue>'] with
\* has_default_values, each param split at '=' into its name and its value.
methodParams ==
  << [p |-> "a", hasValue |-> FALSE, value |-> 0],
     [p |-> "b", hasValue |-> TRUE, value |-> DefaultValue] >>

ParamNames == {methodParams[i].p : i \in DOMAIN methodParams}

\* '' and undefined.
Empty == 0

Args == 0..MaxArg

\* The argument lists a call may pass before the callback.
ArgLists == UNION {[1..n -> Args] : n \in 0..Len(methodParams)}

\* defaultParms[p] = value ? JSON.parse(value) : '' (lines 327-332).
DeclaredDefault(i) ==
  IF methodParams[i].hasValue THEN methodParams[i].value ELSE Empty

BindInit ==
  /\ defaultParms = [q \in ParamNames |->
                       DeclaredDefault(CHOOSE i \in DOMAIN methodParams :
                                         methodParams[i].p = q)]
  /\ lastCall = [n |-> 0, args |-> <<>>, params |-> <<>>]

\* The options object of lines 345-352: a param is set when its argument
\* is there and truthy.
Supplied(args) ==
  {i \in DOMAIN methodParams : i <= Len(args) /\ args[i] # 0}

\* Object.assign(defaultParms, options): the target object after the call.
Assigned(target, args) ==
  [q \in ParamNames |->
     IF \E i \in Supplied(args) : methodParams[i].p = q
     THEN args[CHOOSE i \in Supplied(args) : methodParams[i].p = q]
     ELSE target[q]]

\* Golos$specializedSend(...args, callback) and the ...With method it calls,
\* which maps the options onto the declared params in order.
Invoke(args) ==
  /\ UNCHANGED <<coreVars, streamVars>>
  /\ lastCall.n < MaxInvocations
  /\ LET options == Assigned(defaultParms, args)
     IN /\ defaultParms' = options
        /\ lastCall' = [n |-> lastCall.n + 1, args |-> args,
                        params |-> [i \in DOMAIN methodParams |->
                                      options[methodParams[i].p]]]

MethodNext == \E args \in ArgLists : Invoke(args)

\* ------------------------------------------------------ specifications
Init == CoreInit /\ StreamInit /\ BindInit

\* The client: calls, connections and frames.
Spec == Init /\ [][Next]_vars

\* One stream over a client whose calls are answered in any order.
StreamSpec == Init /\ [][StreamNext]_vars

\* One generated method called again and again.
MethodSpec == Init /\ [][MethodNext]_vars

\* ------------------------------------------------------------ the claims
Calls == 1..Len(calls)

Listening == {t \in Conns : listeners[t] # {}}

\* C1: every non-subscription call that has resolved holds the result of the
\* reply that carried its own id, whatever the order of the replies.
C1_OwnResult ==
  \A c \in Calls :
    calls[c].st = "resolved" => calls[c].val = ResultOf(calls[c].id)

\* Two calls with distinct ids were outstanding together and the reply to
\* the second one arrived first.
C1_Witness ==
  /\ Len(calls) >= 2
  /\ calls[1].id # calls[2].id
  /\ calls[1].st = "pending"
  /\ calls[2].st = "resolved"

\* C5 (as stated): a transport that closed while its connect attempt was
\* pending has its connect promise rejected, so that no call awaiting it
\* stays pending.
C5_ClosedWhilePendingRejects ==
  /\ \A t \in Conns :
       tstate[t] = "closed" => promise[t] \in {"resolved", "rejected"}
  /\ \A c \in Calls :
       (calls[c].st = "awaiting" /\ tstate[calls[c].awaits] = "closed")
       => promise[calls[c].awaits] \in {"resolved", "rejected"}

\* C6: an error frame with id k, when a pending call is registered under k,
\* rejects that call with the whole frame as payload, removes that entry
\* only, and touches no other call and no subscription.
C6_ErrorFrame ==
  [][\A t \in Conns, k \in Ids :
       (/\ OnMessage(t, k, TRUE)
        /\ requests[k] # NoCall
        /\ calls[requests[k]].st = "pending")
       => LET c == requests[k] IN
          /\ calls'[c].st = "rejected"
          /\ calls'[c].val = [payload |-> Frame(k, TRUE)]
          /\ requests' = [requests EXCEPT ![k] = NoCall]
          /\ callbacks' = callbacks
          /\ \A d \in Calls \ {c} : calls'[d] = calls[d]]_vars

\* A call was rejected by an error frame while another call is pending or
\* subscribed and still registered.
C6_Witness ==
  \E c, d \in Calls :
    /\ c # d
    /\ calls[c].st = "rejected"
    /\ calls[c].val = [payload |-> Frame(calls[c].id, TRUE)]
    /\ calls[d].st \in {"pending", "subscribed"}
    /\ requests[calls[d].id] = d \/ callbacks[calls[d].id] = d

\* C7: a dispatch step that finds no transport rejects the call with the
\* transport-unavailable error, writes nothing and registers nothing.
C7_NoTransport ==
  [][\A c \in Calls :
       (Dispatch(c) /\ ws = 0)
       => /\ calls'[c].st = "rejected"
          /\ calls'[c].val = Failure("unavailable")
          /\ writes' = writes
          /\ requests' = requests
          /\ callbacks' = callbacks]_vars

\* A call whose connect promise had resolved was dispatched with no transport.
C7_Witness ==
  \E c \in Calls :
    /\ calls[c].st = "rejected"
    /\ calls[c].val = Failure("unavailable")
    /\ requests[calls[c].id] # c /\ callbacks[calls[c].id] # c
    /\ \A t \in Conns : <<t, c>> \notin writes

C9_StartIdempotent ==
  /\ [](Cardinality(Listening) <= 1)
  /\ [][startP # 0 => /\ nconn' = nconn
                      /\ startP' \in {startP, 0}
                      /\ Start => UNCHANGED vars]_vars

\* Two calls of start() (inside send()) got the same pending promise and
\* one transport exists.
C9_Witness ==
  /\ Len(calls) = 2
  /\ nconn = 1
  /\ startP = 1
  /\ promise[1] = "pending"
  /\ calls[1].awaits = 1 /\ calls[2].awaits = 1
  /\ Listening = {1}

\* C10: a send() that finds no transport (as after stop()) creates exactly
\* one and awaits its connect promise; a send() issued while that attempt
\* is pending shares it.
C10_SendReconnectsOnce ==
  [][\A sub \in BOOLEAN, eid \in {0} \cup ExplicitIds :
       Send(sub, eid)
       => IF ws = 0
          THEN /\ nconn' = nconn + 1
               /\ startP' = nconn'
               /\ ws' = nconn'
               /\ promise'[startP'] = "pending"
               /\ calls'[Len(calls')].awaits = startP'
          ELSE /\ nconn' = nconn
               /\ startP' = startP
               /\ ws' = ws
               /\ calls'[Len(calls')].awaits = startP]_vars

\* stop() ended the first attempt while it was connecting; two later
\* send() calls share the second attempt.
C10_Witness ==
  /\ nconn = 2
  /\ tstate[1] = "closed" /\ promise[1] = "pending"
  /\ Len(calls) = 2
  /\ calls[1].awaits = 2 /\ calls[2].awaits = 2
  /\ promise[2] = "pending"

\* C11: the counter starts at 0; a send() without an explicit id takes the
\* counter's value as its id and raises the counter by one; no other step,
\* a stop(), a reconnect or a send() with an explicit id included, changes
\* the counter. So the auto-assigned ids are 0, 1, 2, ... in call order.
C11_AutoIdsCount ==
  /\ [](id \in Nat /\ \A c \in Calls : calls[c].id \in (0..(id - 1)) \cup ExplicitIds)
  /\ [][/\ \A sub \in BOOLEAN :
             Send(sub, 0) => /\ calls'[Len(calls')].id = id
                             /\ id' = id + 1
        /\ id' # id => \E sub \in BOOLEAN : Send(sub, 0)]_vars

\* Two calls without an explicit id, the second one made after a stop() and
\* on a new connection, got the ids 0 and 1.
C11_Witness ==
  /\ Len(calls) = 2
  /\ calls[1].id = 0 /\ calls[2].id = 1
  /\ id = 2
  /\ nconn = 2
  /\ tstate[1] = "closed"

\* A call whose envelope went out and which awaits its reply or its pushes.
Outstanding(c) == calls[c].st \in {"pending", "subscribed"}

\* C12 (as stated): no id is a key of both tables, and the calls that are
\* outstanding have pairwise distinct ids, so that each of them is the one
\* its table holds under its id.
C12_IdsDistinct ==
  /\ \A i \in Ids : requests[i] = NoCall \/ callbacks[i] = NoCall
  /\ \A c, d \in Calls :
       (c # d /\ Outstanding(c) /\ Outstanding(d)) => calls[c].id # calls[d].id
  /\ \A c \in Calls :
       Outstanding(c) =>
         IF IsCbMethod(calls[c].sub) THEN callbacks[calls[c].id] = c
                                     ELSE requests[calls[c].id] = c

\* C13 (as stated): a frame invokes the callback of a subscription only
\* when it arrives on the transport the subscription's envelope was written
\* to.
C13_NoPushAfterReplace ==
  [][\A t \in Conns, k \in Ids :
       (/\ OnMessage(t, k, FALSE)
        /\ \E c \in Calls : calls[c].sub /\ calls'[c].ncb > calls[c].ncb)
       => <<t, callbacks[k]>> \in writes]_vars

\* C14 (as stated): the entry of a call is removed from the pending-call
\* table when the call is resolved or rejected, so that every entry of the
\* table belongs to a call that is still pending; and a settled call never
\* changes again.
C14_EntryUntilSettled ==
  /\ [](\A i \in Ids :
          requests[i] # NoCall => calls[requests[i]].st = "pending")
  /\ [][\A c \in Calls :
          Settled(c) => /\ calls'[c].st = calls[c].st
                        /\ calls'[c].val = calls[c].val]_vars

\* C20 (as stated): an entry is registered only together with the write of
\* its envelope, so every call that has an entry in either table had its
\* envelope written to a transport; and a dispatch step touches a transport
\* only when it is open.
C20_RegisteredOnlyWithWrite ==
  /\ [](\A i \in Ids :
          /\ requests[i] # NoCall => \E t \in Conns : <<t, requests[i]>> \in writes
          /\ callbacks[i] # NoCall => \E t \in Conns : <<t, callbacks[i]>> \in writes)
  /\ [][\A c \in Calls :
          (Dispatch(c) /\ ws # 0) => tstate[ws] = "open"]_vars

\* The integers a..b in ascending order.
Interval(a, b) == [k \in 1..(IF b >= a THEN b - a + 1 ELSE 0) |-> a + k - 1]

\* C2 (as stated): after the polls so far the callback has received every
\* integer from the first polled number to the last one, in ascending
\* order, and the cursor is the last polled number.
C2_GapFilled ==
  stream.polled # <<>> =>
    /\ stream.emitted = Interval(stream.polled[1],
                                 stream.polled[Len(stream.polled)])
    /\ stream.current = stream.polled[Len(stream.polled)]

\* C3 (as stated): getBlock is called only for numbers a poll returned.
C3_FetchOnlyPolled ==
  \A i \in 1..Len(stream.fetched) : stream.fetched[i] \in SeqRange(stream.polled)

\* C3 (amended): getBlock is called exactly once for every number that
\* streamBlockNumber emits, in the order of emission, the numbers that fill
\* a gap included.
C3_FetchEveryEmitted ==
  /\ stream.fetched = stream.emitted
  /\ \A i, j \in 1..Len(stream.fetched) :
       i < j => stream.fetched[i] < stream.fetched[j]

\* The polls returned 5, 5, 8 and getBlock was called for the synthesized
\* 6 and 7 as well.
C3_Witness ==
  /\ stream.polled = <<5, 5, 8>>
  /\ stream.fetched = <<5, 6, 7>>

\* C4 (as stated): once the cancel function has been called, the callback
\* of streamOperations is not invoked again, with an operation or an error.
C4_NoCallbackAfterCancel ==
  [][stream.cancelled => /\ stream'.ops = stream.ops
                         /\ stream'.errs[4] = stream.errs[4]]_vars

\* C15 (as stated): streamTransactions' callback receives the transactions
\* in block order (blocks are emitted in ascending order), and those of one
\* block in their order within the block.
C15_TransactionsInBlockOrder ==
  \A i, k \in 1..Len(stream.txs) :
    i < k => \/ stream.txs[i][1] < stream.txs[k][1]
             \/ /\ stream.txs[i][1] = stream.txs[k][1]
                /\ stream.txs[i][2] < stream.txs[k][2]

\* C16: a failed poll gives the error to the callback of each of the four
\* layers once and leaves no poll and no timer behind; the poll fails at
\* most once per stream, and after it no poll is outstanding or scheduled.
C16_TerminalOnError ==
  /\ [](/\ stream.errs[1] <= 1
        /\ stream.errs[1] = 1 => (stream.polls = 0 /\ stream.delays = 0))
  /\ [][PollError => /\ \A l \in Layers : stream'.errs[l] = stream.errs[l] + 1
                     /\ stream'.polls = 0 /\ stream'.delays = 0
                     /\ stream'.polled = stream.polled]_vars

\* The third poll of a stream failed: every layer's callback got the error
\* once and nothing is outstanding or scheduled.
C16_Witness ==
  /\ Len(stream.polled) = 2
  /\ stream.errs = [l \in Layers |-> 1]
  /\ stream.polls = 0 /\ stream.delays = 0
  /\ ~stream.cancelled

\* C17: once the cancel function has been called no step issues a poll: the
\* poll in flight may complete and the timer may fire, and neither starts
\* another poll.
C17_NoPollAfterCancel ==
  [][stream.cancelled => /\ stream'.polls <= stream.polls
                         /\ Tick => stream'.polls = stream.polls]_vars

\* The stream was cancelled, the poll in flight completed and the timer it
\* started fired without a new poll.
C17_Witness ==
  /\ stream.cancelled
  /\ Len(stream.polled) >= 1
  /\ stream.errs = [l \in Layers |-> 0]
  /\ stream.polls = 0 /\ stream.delays = 0

\* C18: a stream has at most one poll outstanding, and never a poll and a
\* pending timer together; a poll is issued only by the timer that the reply
\* to the previous poll started, when it fires.
C18_OnePollAtATime ==
  /\ [](stream.polls + stream.delays <= 1)
  /\ [][stream'.polls > stream.polls
        => /\ Tick
           /\ stream.polls = 0 /\ stream.delays = 1
           /\ stream'.polls = 1 /\ stream'.delays = 0
           /\ stream.polled # <<>>]_vars

\* The third poll is outstanding: two replies were received and the timer
\* of the second one has fired.
C18_Witness ==
  /\ Len(stream.polled) = 2
  /\ stream.polls = 1 /\ stream.delays = 0
  /\ stream.running

\* C19 (as stated): the params a call forwards to send() are its own
\* arguments in declared order, each param without an argument taking the
\* default the registry declares for it, whatever the earlier calls were.
\* A falsy argument is counted as omitted here, as line 349 does.
C19_ParamsFromOwnArgs ==
  lastCall.n > 0 =>
    lastCall.params = [i \in DOMAIN methodParams |->
                         IF i \in Supplied(lastCall.args) THEN lastCall.args[i]
                         ELSE DeclaredDefault(i)]

====
